---- MODULE Spec2Model ----
(***************************************************************************)
(* A model of the mbox storage backend (src/lib-storage/index/mbox/        *)
(* mbox-storage.c): mailbox name validation, the name -> path and          *)
(* name -> index directory mappings, and the create / open / delete /      *)
(* rename / status operations acting on a directory tree.                  *)
(*                                                                         *)
(* C strings are sequences of one-character strings; a read past the end   *)
(* of a string yields NUL, as the terminating '\0' does in C.              *)
(***************************************************************************)
EXTENDS Integers, Sequences, FiniteSets, TLC

VARIABLES
    full_filesystem_access, \* the process-wide flag read by the validators
    storage,                \* struct mail_storage: dir, inbox_file, index_dir
    fs,                     \* the directory tree: canonical path -> node
    last,                   \* the last lifecycle call: which, its result, the error slot
    mask,                   \* the string handed to the validators
    valid,                  \* the validators' answers for mask
    procs,                  \* the two racing mbox_create_mailbox calls
    indexes,                \* the registry of index-storage.c: the indexes in use
    boxes,                  \* the open mailboxes (struct index_mailbox), oldest first
    ibox                    \* one open mailbox and its lock, for mbox_storage_lock

vars == <<full_filesystem_access, storage, fs, last, mask, valid, procs,
          indexes, boxes, ibox>>

(***************************************************************************)
(* Bounds of the model.                                                    *)
(***************************************************************************)
MaxLen == 4       \* longest string handed to the validators
NumRaceNames == 6 \* how many entries of NameList the racing creates draw from
MaxNodes == 5     \* most files and directories in the tree, "/" and the root included
DeepNodes == 6    \* the same for the deeper exploration SpecDeep
MaxFaultNodes == 4 \* the same when failures are injected
MaxDepth == 4     \* deepest path in the tree, in segments
MaxBoxes == 2     \* most mailboxes open at once
MaxIndexes == 2   \* most entries in the registry of indexes

(***************************************************************************)
(* Characters and strings.                                                 *)
(***************************************************************************)
NUL == "NUL"
Alphabet == {"a", ".", "/", "\\", "~", "*"}

At(s, i) == IF i >= 1 /\ i <= Len(s) THEN s[i] ELSE NUL

RECURSIVE StringsOfLen(_)
StringsOfLen(n) ==
    IF n = 0 THEN {<<>>}
    ELSE {Append(s, c) : s \in StringsOfLen(n - 1), c \in Alphabet}

Strings == UNION {StringsOfLen(n) : n \in 0..MaxLen}

Lower(c) ==
    CASE c = "I" -> "i"
      [] c = "N" -> "n"
      [] c = "B" -> "b"
      [] c = "O" -> "o"
      [] c = "X" -> "x"
      [] OTHER -> c

\* strcasecmp(a, b) == 0
StrCaseEq(a, b) ==
    /\ Len(a) = Len(b)
    /\ \A i \in 1..Len(a) : Lower(a[i]) = Lower(b[i])

\* strchr(s, c) != NULL
HasChar(s, c) == \E i \in 1..Len(s) : s[i] = c

\* index of the last occurrence of c in s, 0 when there is none (strrchr)
LastIndexOf(s, c) ==
    IF HasChar(s, c)
    THEN CHOOSE i \in 1..Len(s) : s[i] = c /\ \A j \in (i + 1)..Len(s) : s[j] # c
    ELSE 0

\* t_strdup_until(s, s + i - 1): the first i-1 characters
Before(s, i) == SubSeq(s, 1, i - 1)
\* p + 1 for p = s + i - 1: what follows position i
After(s, i) == SubSeq(s, i + 1, Len(s))

INBOX == <<"I", "N", "B", "O", "X">>
hierarchy_sep == "/"

(***************************************************************************)
(* Name validation: mbox_is_valid_mask and the two predicates built on it. *)
(***************************************************************************)
IsSlash(c) == c = "/" \/ c = "\\"

\* the for loop of mbox_is_valid_mask, p = m + i - 1
RECURSIVE MaskScan(_, _, _)
MaskScan(m, i, newdir) ==
    IF At(m, i) = NUL THEN TRUE
    ELSE IF /\ newdir
            /\ At(m, i) = "."
            /\ At(m, i + 1) = "."
            /\ IsSlash(At(m, i + 2))
         THEN FALSE
         ELSE MaskScan(m, i + 1, IsSlash(At(m, i)))

mbox_is_valid_mask(m) ==
    IF full_filesystem_access THEN TRUE
    ELSE IF At(m, 1) = "/" \/ At(m, 1) = "\\" \/ At(m, 1) = "~" THEN FALSE
    ELSE MaskScan(m, 1, TRUE)

mbox_is_valid_create_name(name) ==
    IF \/ At(name, 1) = NUL
       \/ At(name, Len(name)) = hierarchy_sep
       \/ HasChar(name, "*")
       \/ HasChar(name, "%")
    THEN FALSE
    ELSE mbox_is_valid_mask(name)

mbox_is_valid_existing_name(name) ==
    IF At(name, 1) = NUL THEN FALSE ELSE mbox_is_valid_mask(name)

(***************************************************************************)
(* The directory tree.  A canonical path is a sequence of segments (each a *)
(* string); <<>> is "/".  fs maps every existing canonical path to a node. *)
(* A node records what it is: a file or a directory.                       *)
(***************************************************************************)
OK == "OK"
ENOENT == "ENOENT"
ENOTDIR == "ENOTDIR"
EEXIST == "EEXIST"
ENOTEMPTY == "ENOTEMPTY"
EISDIR == "EISDIR"
EINVAL == "EINVAL"
EBUSY == "EBUSY"
EACCES == "EACCES"
ENOSPC == "ENOSPC"
ELOOP == "ELOOP"
EROFS == "EROFS"
EDQUOT == "EDQUOT"
EIO == "EIO"

\* lib/compat.h, which classifies errno values for the whole code base
ENOACCESS(e) == e = EACCES \/ e = EROFS
ENOSPACE(e) == e = ENOSPC \/ e = EDQUOT
ENOTFOUND(e) == e = ENOENT \/ e = ENOTDIR \/ e = ELOOP

\* An injected failure: the system call at `site` fails with `errno`.
NoFault == [site |-> "none", errno |-> OK]
FaultSites == {"stat", "mkdir", "open", "primary", "index"}
FaultErrnos == {EACCES, ENOSPC, EIO}
Faults == {NoFault} \cup [site : FaultSites, errno : FaultErrnos]

Dot == <<".">>
DotDot == <<".", ".">>

RECURSIVE SplitFrom(_, _, _)
SplitFrom(s, i, cur) ==
    IF i > Len(s) THEN <<cur>>
    ELSE IF s[i] = "/" THEN <<cur>> \o SplitFrom(s, i + 1, <<>>)
    ELSE SplitFrom(s, i + 1, Append(cur, s[i]))

\* the segments of a path string between its '/' characters
Split(s) == SplitFrom(s, 1, <<>>)

Parent(p) == IF p = <<>> THEN <<>> ELSE SubSeq(p, 1, Len(p) - 1)

IsPrefix(p, q) == Len(p) <= Len(q) /\ SubSeq(q, 1, Len(p)) = p

Under(f, p) == {q \in DOMAIN f : IsPrefix(p, q)}

\* Path lookup as the kernel does it, starting in the existing directory cur.
\* how: "norm" when the path ends in an ordinary name, "dir" when it ends in
\* "/", "." or ".." and therefore names the directory path itself.
RECURSIVE Walk(_, _, _, _)
Walk(f, cur, segs, how) ==
    IF segs = <<>> THEN [err |-> OK, path |-> cur, how |-> how]
    ELSE LET s == Head(segs)
             rest == Tail(segs)
         IN IF s = <<>> THEN Walk(f, cur, rest, "dir")
            ELSE IF s = Dot THEN Walk(f, cur, rest, "dot")
            ELSE IF s = DotDot THEN Walk(f, Parent(cur), rest, "dotdot")
            ELSE LET nxt == Append(cur, s)
                 IN IF rest = <<>> THEN [err |-> OK, path |-> nxt, how |-> "norm"]
                    ELSE IF nxt \notin DOMAIN f
                         THEN [err |-> ENOENT, path |-> nxt, how |-> "norm"]
                    ELSE IF f[nxt].kind # "dir"
                         THEN [err |-> ENOTDIR, path |-> nxt, how |-> "norm"]
                    ELSE Walk(f, nxt, rest, "dir")

\* an empty path names nothing
Lookup(f, path) ==
    IF path = <<>> THEN [err |-> ENOENT, path |-> <<>>, how |-> "norm"]
    ELSE Walk(f, <<>>, Split(path), "dir")

SysFail(f, e) == [err |-> e, fs |-> f, kind |-> "none"]
SysOk(f) == [err |-> OK, fs |-> f, kind |-> "none"]

\* stat(2) and lstat(2): the tree holds no symbolic links, so they agree
Stat(f, path) ==
    LET w == Lookup(f, path)
    IN IF w.err # OK THEN SysFail(f, w.err)
       ELSE IF w.path \notin DOMAIN f THEN SysFail(f, ENOENT)
       ELSE [err |-> OK, fs |-> f, kind |-> f[w.path].kind]

NewNode(f, p, k) ==
    [q \in DOMAIN f \cup {p} |-> IF q = p THEN [kind |-> k] ELSE f[q]]

Without(f, ps) == [q \in DOMAIN f \ ps |-> f[q]]

\* mkdir(2)
Mkdir(f, path) ==
    LET w == Lookup(f, path)
    IN IF w.err # OK THEN SysFail(f, w.err)
       ELSE IF w.path \in DOMAIN f THEN SysFail(f, EEXIST)
       ELSE SysOk(NewNode(f, w.path, "dir"))

\* open(path, O_RDWR | O_CREAT | O_EXCL) followed by close
OpenExcl(f, path) ==
    LET w == Lookup(f, path)
    IN IF w.err # OK THEN SysFail(f, w.err)
       ELSE IF w.how # "norm" THEN SysFail(f, EISDIR)
       ELSE IF w.path \in DOMAIN f THEN SysFail(f, EEXIST)
       ELSE SysOk(NewNode(f, w.path, "file"))

\* unlink(2)
Unlink(f, path) ==
    LET w == Lookup(f, path)
    IN IF w.err # OK THEN SysFail(f, w.err)
       ELSE IF w.path \notin DOMAIN f THEN SysFail(f, ENOENT)
       ELSE IF f[w.path].kind = "dir" THEN SysFail(f, EISDIR)
       ELSE SysOk(Without(f, {w.path}))

\* rmdir(2)
Rmdir(f, path) ==
    LET w == Lookup(f, path)
    IN IF w.err # OK THEN SysFail(f, w.err)
       ELSE IF w.how = "dot" THEN SysFail(f, EINVAL)
       ELSE IF w.how = "dotdot" THEN SysFail(f, ENOTEMPTY)
       ELSE IF w.path \notin DOMAIN f THEN SysFail(f, ENOENT)
       ELSE IF f[w.path].kind # "dir" THEN SysFail(f, ENOTDIR)
       ELSE IF w.path = <<>> THEN SysFail(f, EBUSY)
       ELSE IF Under(f, w.path) # {w.path} THEN SysFail(f, ENOTEMPTY)
       ELSE SysOk(Without(f, {w.path}))

\* the tree with the subtree at o moved to n (n's own subtree replaced)
Moved(f, o, n) ==
    LET gone == Under(f, o) \cup Under(f, n)
        new == {n \o SubSeq(q, Len(o) + 1, Len(q)) : q \in Under(f, o)}
    IN [q \in (DOMAIN f \ gone) \cup new |->
            IF q \in new THEN f[o \o SubSeq(q, Len(n) + 1, Len(q))] ELSE f[q]]

\* rename(2)
Rename(f, old, new) ==
    LET wo == Lookup(f, old)
        wn == Lookup(f, new)
    IN IF wo.err # OK THEN SysFail(f, wo.err)
       ELSE IF wn.err # OK THEN SysFail(f, wn.err)
       ELSE IF wo.how \in {"dot", "dotdot"} \/ wn.how \in {"dot", "dotdot"}
            THEN SysFail(f, EBUSY)
       ELSE IF wo.path \notin DOMAIN f THEN SysFail(f, ENOENT)
       ELSE IF wo.path = <<>> \/ wn.path = <<>> THEN SysFail(f, EBUSY)
       ELSE IF wo.path = wn.path THEN SysOk(f)
       ELSE IF IsPrefix(wo.path, wn.path) THEN SysFail(f, EINVAL)
       ELSE IF wn.path \in DOMAIN f /\ f[wo.path].kind = "dir" /\ f[wn.path].kind # "dir"
            THEN SysFail(f, ENOTDIR)
       ELSE IF wn.path \in DOMAIN f /\ f[wo.path].kind # "dir" /\ f[wn.path].kind = "dir"
            THEN SysFail(f, EISDIR)
       ELSE IF wn.path \in DOMAIN f /\ Under(f, wn.path) # {wn.path}
            THEN SysFail(f, ENOTEMPTY)
       ELSE SysOk(Moved(f, wo.path, wn.path))

\* mkdir_parents(path, mode) of lib/mkdir-parents.c: mkdir, and on ENOENT
\* make the parent first; an existing path counts as made.
RECURSIVE mkdir_parents(_, _)
mkdir_parents(f, path) ==
    LET r == Mkdir(f, path)
    IN IF r.err = OK \/ r.err = EEXIST THEN SysOk(r.fs)
       ELSE IF r.err # ENOENT THEN SysFail(f, r.err)
       ELSE LET p == LastIndexOf(path, "/")
            IN IF p = 0 \/ p = 1 THEN SysFail(f, ENOENT)
               ELSE LET up == mkdir_parents(f, Before(path, p))
                    IN IF up.err # OK THEN up
                       ELSE LET again == Mkdir(up.fs, path)
                            IN IF again.err = OK \/ again.err = EEXIST
                               THEN SysOk(again.fs)
                               ELSE SysFail(up.fs, again.err)

\* unlink_directory(dir, TRUE) of lib/unlink-directory.c: opendir, remove
\* everything below dir, then dir itself.
unlink_directory(f, dir) ==
    LET w == Lookup(f, dir)
    IN IF w.err # OK THEN SysFail(f, w.err)
       ELSE IF w.path \notin DOMAIN f THEN SysFail(f, ENOENT)
       ELSE IF f[w.path].kind # "dir" THEN SysFail(f, ENOTDIR)
       ELSE IF w.path = <<>> THEN SysFail(f, EBUSY)
       ELSE SysOk(Without(f, Under(f, w.path)))

\* The call r made at `site`, unless the failure injected for this
\* operation is for that site.
At_(site, fault, f, r) == IF fault.site = site THEN SysFail(f, fault.errno) ELSE r

(***************************************************************************)
(* The storage handle and the error slot.                                  *)
(***************************************************************************)
NoPath == <<NUL>>       \* a NULL char pointer
RootDir == <<"/", "m">>
InboxFile == <<"/", "m", "/", "i", "n", "b", "o", "x">>
HomeDir == <<"/", "h">>
ImapDir == <<"/", ".", "i", "m", "a", "p">>     \* "/.imap"

NoError == "none"
E_Invalid == "Invalid mailbox name"
E_Exists == "Mailbox already exists"
E_NoInferiors == "Mailbox doesn't allow inferior mailboxes"
E_Perm == "Permission denied"
E_NoSpace == "Not enough disk space"
E_Broken == "Directory structure is broken"
E_NotExist == "Mailbox doesn't exist"
E_NotSelectable == "Mailbox isn't selectable"
E_InboxDelete == "INBOX can't be deleted."
E_NotEmpty == "Folder isn't empty, can't delete it."
E_TargetExists == "Target mailbox already exists"
E_Critical == "Internal error"      \* what mail_storage_set_critical leaves in the slot

\* The outcome of a call: the tree, the returned value, the name status
\* (status query only), the error slot, whether a critical error was logged,
\* and the mutating system calls made, in order.
Ret(f, res, error, syslog, log) ==
    [fs |-> f, res |-> res, status |-> "none", error |-> error,
     syslog |-> syslog, log |-> log]

Ev(call, on, r) == [call |-> call, on |-> on, ok |-> r.err = OK, err |-> r.err]

\* mbox_handle_errors: the classifier.  handled is its return value.
mbox_handle_errors(e) ==
    IF ENOACCESS(e) THEN [handled |-> TRUE, error |-> E_Perm]
    ELSE IF ENOSPACE(e) THEN [handled |-> TRUE, error |-> E_NoSpace]
    ELSE IF ENOTFOUND(e) THEN [handled |-> TRUE, error |-> E_Broken]
    ELSE [handled |-> FALSE, error |-> NoError]

\* A report that never consults the classifier.
NeverClassified(e) == [error |-> E_Critical, syslog |-> TRUE]

\* "else if (!mbox_handle_errors(storage)) mail_storage_set_critical(...)":
\* the slot and the log flag after a failed call with errno e
Classified(e) ==
    LET h == mbox_handle_errors(e)
    IN IF h.handled THEN [error |-> h.error, syslog |-> FALSE]
       ELSE [error |-> E_Critical, syslog |-> TRUE]

\* home_expand of lib/home-expand.c
home_expand(path) ==
    IF At(path, 1) = "~" /\ (At(path, 2) = "/" \/ At(path, 2) = NUL)
    THEN HomeDir \o After(path, 1)
    ELSE path

mbox_get_path(name) ==
    IF StrCaseEq(name, INBOX) THEN storage.inbox_file
    ELSE IF full_filesystem_access /\ (At(name, 1) = "/" \/ At(name, 1) = "~")
         THEN home_expand(name)
    ELSE storage.dir \o <<"/">> \o name

mbox_get_index_dir(name) ==
    IF storage.index_dir = NoPath THEN NoPath
    ELSE IF full_filesystem_access /\ (At(name, 1) = "/" \/ At(name, 1) = "~")
         THEN LET n == home_expand(name)
                  p == LastIndexOf(n, "/")
              IN Before(n, p) \o ImapDir \o <<"/">> \o After(n, p)
    ELSE LET p == LastIndexOf(name, "/")
         IN IF p = 0 THEN storage.index_dir \o ImapDir \o <<"/">> \o name
            ELSE storage.index_dir \o <<"/">> \o Before(name, p)
                     \o ImapDir \o <<"/">> \o After(name, p)

\* create_mbox_index_dirs: [ok, fs, log]
create_mbox_index_dirs(f, name, fault) ==
    LET index_dir == mbox_get_index_dir(name)
    IN IF index_dir = NoPath THEN [ok |-> TRUE, fs |-> f, log |-> <<>>]
       ELSE LET r == At_("index", fault, f, mkdir_parents(f, index_dir))
            IN [ok |-> r.err = OK, fs |-> r.fs, log |-> <<Ev("mkdir_parents", "index", r)>>]

(***************************************************************************)
(* mbox_create_mailbox, in the three steps between which another process   *)
(* can run: the validation and stat, mkdir_parents, the exclusive open.    *)
(* A step yields the outcome so far and whether the call goes on.          *)
(***************************************************************************)
Stop(out) == [next |-> "done", out |-> out]
Go(next, out) == [next |-> next, out |-> out]

CreateName(name) == IF StrCaseEq(name, INBOX) THEN INBOX ELSE name

\* lines 409-435
CreateCheck(f, name, fault) ==
    LET nm == CreateName(name)
    IN IF ~mbox_is_valid_create_name(nm)
       THEN Stop(Ret(f, FALSE, E_Invalid, FALSE, <<>>))
       ELSE LET st == At_("stat", fault, f, Stat(f, mbox_get_path(nm)))
            IN IF st.err = OK THEN Stop(Ret(f, FALSE, E_Exists, FALSE, <<>>))
               ELSE IF st.err # ENOENT /\ st.err # ELOOP /\ st.err # EACCES
                    THEN IF st.err = ENOTDIR
                         THEN Stop(Ret(f, FALSE, E_NoInferiors, FALSE, <<>>))
                         ELSE Stop(Ret(f, FALSE, E_Critical, TRUE, <<>>))
               ELSE Go("mkdir", Ret(f, FALSE, NoError, FALSE, <<>>))

\* lines 437-454
CreateMkdir(f, name, only_hierarchy, fault) ==
    LET path == mbox_get_path(CreateName(name))
        i == LastIndexOf(path, "/")
        p == IF only_hierarchy THEN path
             ELSE IF i = 0 THEN NoPath ELSE Before(path, i)
    IN IF p = NoPath THEN Go("open", Ret(f, FALSE, NoError, FALSE, <<>>))
       ELSE LET r == At_("mkdir", fault, f, mkdir_parents(f, p))
                log == <<Ev("mkdir_parents", "storage", r)>>
            IN IF r.err # OK
               THEN LET c == Classified(r.err)
                    IN Stop(Ret(r.fs, FALSE, c.error, c.syslog, log))
               ELSE IF only_hierarchy THEN Stop(Ret(r.fs, TRUE, NoError, FALSE, log))
               ELSE Go("open", Ret(r.fs, FALSE, NoError, FALSE, log))

\* An open without O_EXCL, which takes over a file that is already there.
CreateOpenNoExcl(f, name, log, fault) ==
    LET path == mbox_get_path(CreateName(name))
        r0 == At_("open", fault, f, OpenExcl(f, path))
        r == IF r0.err = EEXIST THEN SysOk(f) ELSE r0
    IN IF r.err = OK THEN Ret(r.fs, TRUE, NoError, FALSE, Append(log, Ev("open", "storage", r)))
       ELSE LET c == Classified(r.err)
            IN Ret(r.fs, FALSE, c.error, c.syslog, Append(log, Ev("open", "storage", r)))

\* lines 456-470
CreateOpen(f, name, log, fault) ==
    LET path == mbox_get_path(CreateName(name))
        r == At_("open", fault, f, OpenExcl(f, path))
        log2 == Append(log, Ev("open", "storage", r))
    IN IF r.err = OK THEN Ret(r.fs, TRUE, NoError, FALSE, log2)
       ELSE IF r.err = EEXIST THEN Ret(r.fs, FALSE, E_Exists, FALSE, log2)
       ELSE LET c == Classified(r.err)
            IN Ret(r.fs, FALSE, c.error, c.syslog, log2)

\* A create that does not look whether the mailbox is already there.
CreateNoStat(f, name, only_hierarchy, fault) ==
    LET s2 == CreateMkdir(f, name, only_hierarchy, fault)
    IN IF ~mbox_is_valid_create_name(CreateName(name))
       THEN Ret(f, FALSE, E_Invalid, FALSE, <<>>)
       ELSE IF s2.next = "done" THEN s2.out
       ELSE CreateOpenNoExcl(s2.out.fs, name, s2.out.log, fault)

mbox_create_mailbox(f, name, only_hierarchy, fault) ==
    LET s1 == CreateCheck(f, name, fault)
    IN IF s1.next = "done" THEN s1.out
       ELSE LET s2 == CreateMkdir(s1.out.fs, name, only_hierarchy, fault)
            IN IF s2.next = "done" THEN s2.out
               ELSE CreateOpen(s2.out.fs, name, s2.out.log, fault)

(***************************************************************************)
(* mbox_delete_mailbox                                                     *)
(***************************************************************************)
\* A classification that has no "doesn't exist" case of its own.
NotFoundOrBroken(e) == Classified(e)

\* the slot after a failed stat, unlink, rmdir or rename of a mailbox path
NotFoundOr(e) ==
    IF ENOTFOUND(e) THEN [error |-> E_NotExist, syslog |-> FALSE] ELSE Classified(e)

\* lines 502-532: the path is a directory
DeleteDir(f, name, path, fault) ==
    LET index_dir == IF storage.index_dir = NoPath THEN NoPath
                     ELSE storage.index_dir \o <<"/">> \o name \o ImapDir
        ri == IF index_dir = NoPath THEN SysOk(f)
              ELSE At_("index", fault, f, Rmdir(f, index_dir))
        log1 == IF index_dir = NoPath THEN <<>> ELSE <<Ev("rmdir", "index", ri)>>
        bad == ri.err # OK /\ ~ENOTFOUND(ri.err) /\ ri.err # ENOTEMPTY
        h == mbox_handle_errors(ri.err)
    IN IF bad /\ ~h.handled THEN Ret(ri.fs, FALSE, E_Critical, TRUE, log1)
       ELSE LET err1 == IF bad THEN h.error ELSE NoError
                rp == At_("primary", fault, ri.fs, Rmdir(ri.fs, path))
                log2 == Append(log1, Ev("rmdir", "storage", rp))
            IN IF rp.err = OK THEN Ret(rp.fs, TRUE, err1, FALSE, log2)
               ELSE IF ENOTFOUND(rp.err) THEN Ret(rp.fs, FALSE, E_NotExist, FALSE, log2)
               ELSE IF rp.err = ENOTEMPTY THEN Ret(rp.fs, FALSE, E_NotEmpty, FALSE, log2)
               ELSE LET c == Classified(rp.err)
                    IN Ret(rp.fs, FALSE, c.error, c.syslog, log2)

\* A leaf delete that gives up when the index directory cannot be removed.
DeleteFileStrict(f, name, path, fault) ==
    LET ul == At_("primary", fault, f, Unlink(f, path))
        log1 == <<Ev("unlink", "storage", ul)>>
    IN IF ul.err # OK
       THEN LET c == NotFoundOr(ul.err) IN Ret(ul.fs, FALSE, c.error, c.syslog, log1)
       ELSE LET index_dir == mbox_get_index_dir(name)
            IN IF index_dir = NoPath THEN Ret(ul.fs, TRUE, NoError, FALSE, log1)
               ELSE LET ud == At_("index", fault, ul.fs, unlink_directory(ul.fs, index_dir))
                        log2 == Append(log1, Ev("unlink_directory", "index", ud))
                    IN IF ud.err # OK /\ ud.err # ENOENT
                       THEN Ret(ud.fs, FALSE, E_Critical, TRUE, log2)
                       ELSE Ret(ud.fs, TRUE, NoError, FALSE, log2)

\* lines 534-560: the path is a mailbox file
DeleteFile(f, name, path, fault) ==
    LET ul == At_("primary", fault, f, Unlink(f, path))
        log1 == <<Ev("unlink", "storage", ul)>>
    IN IF ul.err # OK
       THEN LET c == NotFoundOr(ul.err) IN Ret(ul.fs, FALSE, c.error, c.syslog, log1)
       ELSE LET index_dir == mbox_get_index_dir(name)
            IN IF index_dir = NoPath THEN Ret(ul.fs, TRUE, NoError, FALSE, log1)
               ELSE LET ud == At_("index", fault, ul.fs, unlink_directory(ul.fs, index_dir))
                        log2 == Append(log1, Ev("unlink_directory", "index", ud))
                    IN IF ud.err # OK /\ ud.err # ENOENT
                       THEN Ret(ud.fs, TRUE, E_Critical, TRUE, log2)
                       ELSE Ret(ud.fs, TRUE, NoError, FALSE, log2)

\* A delete without the INBOX test of lines 480-483.
DeleteInboxToo(f, name, fault) ==
    IF ~mbox_is_valid_existing_name(name) THEN Ret(f, FALSE, E_Invalid, FALSE, <<>>)
    ELSE LET path == mbox_get_path(name)
             st == At_("stat", fault, f, Stat(f, path))
         IN IF st.err # OK
            THEN LET c == NotFoundOr(st.err) IN Ret(f, FALSE, c.error, c.syslog, <<>>)
            ELSE IF st.kind = "dir" THEN DeleteDir(f, name, path, fault)
            ELSE DeleteFile(f, name, path, fault)

mbox_delete_mailbox(f, name, fault) ==
    IF StrCaseEq(name, INBOX) THEN Ret(f, FALSE, E_InboxDelete, FALSE, <<>>)
    ELSE IF ~mbox_is_valid_existing_name(name) THEN Ret(f, FALSE, E_Invalid, FALSE, <<>>)
    ELSE LET path == mbox_get_path(name)
             st == At_("stat", fault, f, Stat(f, path))
         IN IF st.err # OK
            THEN LET c == NotFoundOr(st.err) IN Ret(f, FALSE, c.error, c.syslog, <<>>)
            ELSE IF st.kind = "dir" THEN DeleteDir(f, name, path, fault)
            ELSE DeleteFile(f, name, path, fault)

(***************************************************************************)
(* mbox_rename_mailbox                                                     *)
(***************************************************************************)
\* A rename that moves the index directory first and gives up when that fails.
RenamePathsIndexFirst(f, oldnm, newname, log, fault) ==
    LET old_indexdir == mbox_get_index_dir(oldnm)
        new_indexdir == mbox_get_index_dir(newname)
        ri == IF old_indexdir = NoPath THEN SysOk(f)
              ELSE At_("index", fault, f, Rename(f, old_indexdir, new_indexdir))
        log1 == IF old_indexdir = NoPath THEN log ELSE Append(log, Ev("rename", "index", ri))
    IN IF ri.err # OK /\ ri.err # ENOENT THEN Ret(ri.fs, FALSE, E_Critical, TRUE, log1)
       ELSE LET rn == At_("primary", fault, ri.fs,
                          Rename(ri.fs, mbox_get_path(oldnm), mbox_get_path(newname)))
                log2 == Append(log1, Ev("rename", "storage", rn))
            IN IF rn.err # OK
               THEN LET c == NotFoundOr(rn.err) IN Ret(rn.fs, FALSE, c.error, c.syslog, log2)
               ELSE Ret(rn.fs, TRUE, NoError, FALSE, log2)

\* A rename that copies: the old path stays behind.
RenamePathsKeepsOld(f, oldnm, newname, log, fault) ==
    LET oldpath == mbox_get_path(oldnm)
        newpath == mbox_get_path(newname)
        rn == At_("primary", fault, f, Rename(f, oldpath, newpath))
        kept == [q \in DOMAIN rn.fs \cup DOMAIN f |-> IF q \in DOMAIN f THEN f[q] ELSE rn.fs[q]]
        log1 == Append(log, Ev("rename", "storage", rn))
    IN IF rn.err # OK
       THEN LET c == NotFoundOr(rn.err) IN Ret(rn.fs, FALSE, c.error, c.syslog, log1)
       ELSE Ret(kept, TRUE, NoError, FALSE, log1)

\* A rename that, when the rename of the mailbox path fails, removes the
\* directory it had made sure of for the new path.
RenamePathsTidy(f, oldnm, newname, log, fault) ==
    LET oldpath == mbox_get_path(oldnm)
        newpath == mbox_get_path(newname)
        rn == At_("primary", fault, f, Rename(f, oldpath, newpath))
        log1 == Append(log, Ev("rename", "storage", rn))
    IN IF rn.err # OK
       THEN LET c == NotFoundOr(rn.err)
                rd == Rmdir(rn.fs, Before(newpath, LastIndexOf(newpath, "/")))
            IN Ret(rd.fs, FALSE, c.error, c.syslog, log1)
       ELSE LET old_indexdir == mbox_get_index_dir(oldnm)
                new_indexdir == mbox_get_index_dir(newname)
            IN IF old_indexdir = NoPath THEN Ret(rn.fs, TRUE, NoError, FALSE, log1)
               ELSE LET ri == At_("index", fault, rn.fs,
                                  Rename(rn.fs, old_indexdir, new_indexdir))
                        log2 == Append(log1, Ev("rename", "index", ri))
                    IN IF ri.err # OK THEN Ret(ri.fs, TRUE, E_Critical, TRUE, log2)
                       ELSE Ret(ri.fs, TRUE, NoError, FALSE, log2)

\* lines 611-635: the rename of the mailbox path, then of its index directory
RenamePaths(f, oldnm, newname, log, fault) ==
    LET oldpath == mbox_get_path(oldnm)
        newpath == mbox_get_path(newname)
        rn == At_("primary", fault, f, Rename(f, oldpath, newpath))
        log1 == Append(log, Ev("rename", "storage", rn))
    IN IF rn.err # OK
       THEN LET c == NotFoundOr(rn.err) IN Ret(rn.fs, FALSE, c.error, c.syslog, log1)
       ELSE LET old_indexdir == mbox_get_index_dir(oldnm)
                new_indexdir == mbox_get_index_dir(newname)
            IN IF old_indexdir = NoPath THEN Ret(rn.fs, TRUE, NoError, FALSE, log1)
               ELSE LET ri == At_("index", fault, rn.fs,
                                  Rename(rn.fs, old_indexdir, new_indexdir))
                        log2 == Append(log1, Ev("rename", "index", ri))
                    IN IF ri.err # OK THEN Ret(ri.fs, TRUE, E_Critical, TRUE, log2)
                       ELSE Ret(ri.fs, TRUE, NoError, FALSE, log2)

mbox_rename_mailbox(f, oldname, newname, fault) ==
    IF ~mbox_is_valid_existing_name(oldname) \/ ~mbox_is_valid_create_name(newname)
    THEN Ret(f, FALSE, E_Invalid, FALSE, <<>>)
    ELSE LET oldnm == IF StrCaseEq(oldname, INBOX) THEN INBOX ELSE oldname
             newpath == mbox_get_path(newname)
             i == LastIndexOf(newpath, "/")
             mk == IF i = 0 THEN SysOk(f)
                   ELSE At_("mkdir", fault, f, mkdir_parents(f, Before(newpath, i)))
             log == IF i = 0 THEN <<>> ELSE <<Ev("mkdir_parents", "storage", mk)>>
         IN IF mk.err # OK
            THEN LET c == Classified(mk.err) IN Ret(mk.fs, FALSE, c.error, c.syslog, log)
            ELSE LET st == At_("stat", fault, mk.fs, Stat(mk.fs, newpath))
                 IN IF st.err = OK THEN Ret(mk.fs, FALSE, E_TargetExists, FALSE, log)
                    ELSE IF ~ENOTFOUND(st.err) /\ st.err # EACCES
                         THEN Ret(mk.fs, FALSE, E_Critical, TRUE, log)
                    ELSE RenamePaths(mk.fs, oldnm, newname, log, fault)

(***************************************************************************)
(* mbox_get_mailbox_name_status                                            *)
(***************************************************************************)
Status(f, st) == [Ret(f, TRUE, NoError, FALSE, <<>>) EXCEPT !.status = st]

mbox_get_mailbox_name_status(f, name, fault) ==
    LET nm == IF StrCaseEq(name, INBOX) THEN INBOX ELSE name
    IN IF ~mbox_is_valid_existing_name(nm) THEN Status(f, "INVALID")
       ELSE LET st == At_("stat", fault, f, Stat(f, mbox_get_path(nm)))
            IN IF st.err = OK THEN Status(f, "EXISTS")
               ELSE IF ~mbox_is_valid_create_name(nm) THEN Status(f, "INVALID")
               ELSE IF ENOTFOUND(st.err) \/ st.err = EACCES THEN Status(f, "VALID")
               ELSE IF st.err = ENOTDIR THEN Status(f, "NOINFERIORS")
               ELSE Ret(f, FALSE, E_Critical, TRUE, <<>>)

(***************************************************************************)
(* mbox_open_mailbox                                                       *)
(***************************************************************************)
\* verify_inbox: [ok, fs, log]
verify_inbox(f, fault) ==
    LET r == At_("open", fault, f, OpenExcl(f, storage.inbox_file))
        d == create_mbox_index_dirs(r.fs, INBOX, fault)
    IN [ok |-> d.ok, fs |-> d.fs, log |-> <<Ev("open", "storage", r)>> \o d.log]

mbox_open_mailbox(f, name, fault) ==
    IF StrCaseEq(name, INBOX)
    THEN LET v == verify_inbox(f, fault)
         IN IF ~v.ok THEN Ret(v.fs, FALSE, E_Critical, TRUE, v.log)
            ELSE Ret(v.fs, TRUE, NoError, FALSE, v.log)
    ELSE IF ~mbox_is_valid_existing_name(name) THEN Ret(f, FALSE, E_Invalid, FALSE, <<>>)
    ELSE LET st == At_("stat", fault, f, Stat(f, mbox_get_path(name)))
         IN IF st.err = OK
            THEN IF st.kind = "dir" THEN Ret(f, FALSE, E_NotSelectable, FALSE, <<>>)
                 ELSE LET d == create_mbox_index_dirs(f, name, fault)
                      IN IF ~d.ok THEN Ret(d.fs, FALSE, E_Critical, TRUE, d.log)
                         ELSE Ret(d.fs, TRUE, NoError, FALSE, d.log)
            ELSE LET c == NotFoundOr(st.err) IN Ret(f, FALSE, c.error, c.syslog, <<>>)

(***************************************************************************)
(* mbox_open and the registry of indexes it draws on.  The registry is the *)
(* list kept by index-storage.c: one entry per struct mail_index, with the *)
(* directory it was allocated for and the number of mailboxes using it.    *)
(* An entry carries an id, which stands for the pointer to its index.      *)
(***************************************************************************)
NoBox == [name |-> <<>>, index |-> 0, dir |-> NoPath]

\* an id no entry of the registry has: the address of a fresh allocation
FreeId(reg) ==
    CHOOSE n \in 1..(Len(reg) + 1) :
        /\ \A i \in 1..Len(reg) : reg[i].id # n
        /\ \A m \in 1..(n - 1) : \E i \in 1..Len(reg) : reg[i].id = m

\* index_storage_lookup_ref: the first entry for the directory, one more
\* reference taken on it; index 0 is NULL
index_storage_lookup_ref(reg, dir) ==
    LET hits == {i \in 1..Len(reg) : dir # NoPath /\ reg[i].dir = dir}
    IN IF hits = {} THEN [index |-> 0, indexes |-> reg]
       ELSE LET i == CHOOSE k \in hits : \A j \in hits : k <= j
            IN [index |-> reg[i].id,
                indexes |-> [reg EXCEPT ![i].refcount = @ + 1]]

\* index_storage_add: a new entry holding one reference
index_storage_add(reg, id, dir) ==
    Append(reg, [id |-> id, dir |-> dir, refcount |-> 1])

\* index_storage_unref: one reference fewer on the entry of that index
index_storage_unref(reg, id) ==
    [i \in 1..Len(reg) |->
        IF reg[i].id = id THEN [reg[i] EXCEPT !.refcount = @ - 1] ELSE reg[i]]

\* index_storage_destroy_unrefed: the entries nobody uses are dropped
index_storage_destroy_unrefed(reg) ==
    SelectSeq(reg, LAMBDA e : e.refcount > 0)

\* An mbox_open that allocates an index of its own for every mailbox.
MboxOpenOwnIndex(reg, name, init_ok) ==
    LET nm == IF StrCaseEq(name, INBOX) THEN INBOX ELSE name
        index_dir == mbox_get_index_dir(nm)
        id == FreeId(reg)
        added == index_storage_add(reg, id, index_dir)
    IN IF init_ok
       THEN [indexes |-> added, box |-> [name |-> nm, index |-> id, dir |-> index_dir]]
       ELSE [indexes |-> index_storage_unref(added, id), box |-> NoBox]

\* mbox_open, lines 322-354.  init_ok: index_storage_mailbox_init returns a
\* mailbox; when it does not, it has given the reference back.
mbox_open(reg, name, init_ok) ==
    LET nm == IF StrCaseEq(name, INBOX) THEN INBOX ELSE name
        index_dir == mbox_get_index_dir(nm)
        look == index_storage_lookup_ref(reg, index_dir)
        id == IF look.index = 0 THEN FreeId(reg) ELSE look.index
        reg1 == IF look.index = 0 THEN index_storage_add(reg, id, index_dir)
                ELSE look.indexes
    IN IF init_ok
       THEN [indexes |-> reg1, box |-> [name |-> nm, index |-> id, dir |-> index_dir]]
       ELSE [indexes |-> index_storage_unref(reg1, id), box |-> NoBox]

\* mbox_storage_close, lines 679-695: index_storage_mailbox_free gives the
\* mailbox's reference back
mbox_storage_close(reg, box) == index_storage_unref(reg, box.index)

(***************************************************************************)
(* mbox_storage_lock.  A lock type of the mailbox is a set of the flags    *)
(* MAILBOX_LOCK_READ, _FLAGS, _EXPUNGE and _SAVE, the empty set being      *)
(* MAILBOX_LOCK_UNLOCK; the lock of the index is one of MAIL_LOCK_UNLOCK,  *)
(* MAIL_LOCK_SHARED and MAIL_LOCK_EXCLUSIVE.                               *)
(***************************************************************************)
MAILBOX_LOCK_READ == "READ"
MAILBOX_LOCK_FLAGS == "FLAGS"
MAILBOX_LOCK_EXPUNGE == "EXPUNGE"
MAILBOX_LOCK_SAVE == "SAVE"
MAILBOX_LOCK_UNLOCK == {}
LockFlags == {MAILBOX_LOCK_READ, MAILBOX_LOCK_FLAGS, MAILBOX_LOCK_EXPUNGE,
              MAILBOX_LOCK_SAVE}
LockTypes == SUBSET LockFlags

MAIL_LOCK_UNLOCK == "UNLOCK"
MAIL_LOCK_SHARED == "SHARED"
MAIL_LOCK_EXCLUSIVE == "EXCLUSIVE"
IndexLocks == {MAIL_LOCK_UNLOCK, MAIL_LOCK_SHARED, MAIL_LOCK_EXCLUSIVE}

\* which call into the index fails during one mbox_storage_lock
IndexFailures == {"none", "lock", "sync"}

\* one call into the index made by mbox_storage_lock
Step(call, lock, ok) == [call |-> call, lock |-> lock, ok |-> ok]

\* The mailbox after a call of mbox_storage_lock: its lock_type, the lock
\* its index holds, whether the process was aborted by a failed assertion,
\* and the call itself: the request, the value returned, the calls made
\* into the index.
Locked(lock_type, index_lock, abort, req, res, steps) ==
    [lock_type |-> lock_type, index_lock |-> index_lock, abort |-> abort,
     req |-> req, res |-> res, steps |-> steps]

\* index_storage_lock: the index takes the lock asked for, or fails and
\* keeps the one it has
index_storage_lock(index_lock, lock, fails) ==
    IF fails THEN [ok |-> FALSE, index_lock |-> index_lock]
    ELSE [ok |-> TRUE, index_lock |-> lock]

\* index_storage_sync_and_lock: the index is synchronized and left with the
\* lock asked for, or fails and is left with the lock `left`
index_storage_sync_and_lock(index_lock, lock, fails, left) ==
    IF fails THEN [ok |-> FALSE, index_lock |-> left]
    ELSE [ok |-> TRUE, index_lock |-> lock]

\* lines 725-741: what follows the assertion
LockSteps(b, lock_type, fail, left) ==
    LET first == IF lock_type \cap {MAILBOX_LOCK_EXPUNGE, MAILBOX_LOCK_FLAGS} # {}
                 THEN MAIL_LOCK_EXCLUSIVE
                 ELSE IF MAILBOX_LOCK_READ \in lock_type THEN MAIL_LOCK_SHARED
                 ELSE MAIL_LOCK_UNLOCK      \* no lock is asked of the index
        r1 == IF first = MAIL_LOCK_UNLOCK THEN [ok |-> TRUE, index_lock |-> b.index_lock]
              ELSE index_storage_lock(b.index_lock, first, fail = "lock")
        s1 == IF first = MAIL_LOCK_UNLOCK THEN <<>>
              ELSE <<Step("lock", first, r1.ok)>>
    IN IF ~r1.ok THEN Locked(b.lock_type, r1.index_lock, FALSE, lock_type, FALSE, s1)
       ELSE IF lock_type \cap {MAILBOX_LOCK_EXPUNGE, MAILBOX_LOCK_SAVE} # {}
            THEN LET r2 == index_storage_sync_and_lock(r1.index_lock, MAIL_LOCK_EXCLUSIVE,
                                                       fail = "sync", left)
                     s2 == Append(s1, Step("sync_and_lock", MAIL_LOCK_EXCLUSIVE, r2.ok))
                 IN IF ~r2.ok
                    THEN Locked(b.lock_type, r2.index_lock, FALSE, lock_type, FALSE, s2)
                    ELSE Locked(lock_type, r2.index_lock, FALSE, lock_type, TRUE, s2)
       ELSE Locked(lock_type, r1.index_lock, FALSE, lock_type, TRUE, s1)

\* lines 716-721: the unlock
LockUnlock(b, fail) ==
    LET r == index_storage_lock(b.index_lock, MAIL_LOCK_UNLOCK, fail = "lock")
    IN Locked(MAILBOX_LOCK_UNLOCK, r.index_lock, FALSE, MAILBOX_LOCK_UNLOCK, r.ok,
              <<Step("lock", MAIL_LOCK_UNLOCK, r.ok)>>)

\* A lock that makes no assertion about the lock held.
LockNoAssert(b, lock_type, fail, left) ==
    IF lock_type = MAILBOX_LOCK_UNLOCK THEN LockUnlock(b, fail)
    ELSE LockSteps(b, lock_type, fail, left)

\* A lock that records the lock type before it asks the index.
LockSetsFirst(b, lock_type, fail, left) ==
    IF lock_type = MAILBOX_LOCK_UNLOCK THEN LockUnlock(b, fail)
    ELSE IF b.lock_type # MAILBOX_LOCK_UNLOCK
         THEN Locked(b.lock_type, b.index_lock, TRUE, lock_type, FALSE, <<>>)
    ELSE [LockSteps(b, lock_type, fail, left) EXCEPT !.lock_type = lock_type]

\* A lock that takes the shared lock whenever reading is asked for.
LockReadShared(b, lock_type, fail, left) ==
    IF lock_type = MAILBOX_LOCK_UNLOCK THEN LockUnlock(b, fail)
    ELSE IF b.lock_type # MAILBOX_LOCK_UNLOCK
         THEN Locked(b.lock_type, b.index_lock, TRUE, lock_type, FALSE, <<>>)
    ELSE IF MAILBOX_LOCK_READ \in lock_type /\ MAILBOX_LOCK_SAVE \notin lock_type
              /\ MAILBOX_LOCK_EXPUNGE \notin lock_type
         THEN LockSteps(b, {MAILBOX_LOCK_READ}, fail, left)
    ELSE LockSteps(b, lock_type, fail, left)

\* mbox_storage_lock, lines 711-742.  i_assert aborts the process when its
\* condition is false.
mbox_storage_lock(b, lock_type, fail, left) ==
    IF lock_type = MAILBOX_LOCK_UNLOCK THEN LockUnlock(b, fail)
    ELSE IF b.lock_type # MAILBOX_LOCK_UNLOCK
         THEN Locked(b.lock_type, b.index_lock, TRUE, lock_type, FALSE, <<>>)
    ELSE LockSteps(b, lock_type, fail, left)

(***************************************************************************)
(* The state machine: one storage handle, lifecycle calls made one after   *)
(* another, each with any of the names and any injected failure.           *)
(***************************************************************************)
\* the names the calls are made with
NameList ==
    << <<"a">>,
       <<"a", "/", "b">>,
       INBOX,
       <<"a", "/", "c">>,
       <<"a", "/", ".", ".">>,
       <<"I", "n", "b", "o", "x">>,
       <<"a", "*">> >>

\* further names the properties try in every reachable state
MoreNames ==
    { <<"b">>,
      <<".", ".">>,
      <<".", ".", "/", "a">>,
      <<>>,
      <<"a", "/">>,
      <<".", "i", "m", "a", "p", "/", "a">> }

Min(x, y) == IF x < y THEN x ELSE y

Names == {NameList[i] : i \in 1..Len(NameList)}
RaceNames == {NameList[i] : i \in 1..Min(NumRaceNames, Len(NameList))}
\* the names of the calls made with injected failures
FaultNames == {NameList[1], NameList[2], INBOX}

\* the handles mbox_create builds: the index kept below the root, or in memory
Storages ==
    { [dir |-> RootDir, inbox_file |-> InboxFile, index_dir |-> RootDir],
      [dir |-> RootDir, inbox_file |-> InboxFile, index_dir |-> NoPath] }

Root == << <<"m">> >>
InitFs == (<<>> :> [kind |-> "dir"]) @@ (Root :> [kind |-> "dir"])

NoValid == [done |-> FALSE, mask |-> FALSE, create |-> FALSE, existing |-> FALSE]

NoCall == [op |-> "none", res |-> FALSE, status |-> "none", error |-> NoError,
           syslog |-> FALSE]
Procs == {1, 2}
NoProcs == [p \in Procs |-> [pc |-> "idle", name |-> <<>>, only_hierarchy |-> FALSE,
                             res |-> FALSE, error |-> NoError, syslog |-> FALSE,
                             log |-> <<>>]]

Called(op, out) ==
    [op |-> op, res |-> out.res, status |-> out.status, error |-> out.error,
     syslog |-> out.syslog]

\* a mailbox as index_storage_mailbox_init leaves it: nothing locked
NoLock == Locked(MAILBOX_LOCK_UNLOCK, MAIL_LOCK_UNLOCK, FALSE, MAILBOX_LOCK_UNLOCK,
                 TRUE, <<>>)

\* no mailbox has been opened yet
NoBoxes ==
    /\ indexes = <<>>
    /\ boxes = <<>>
    /\ ibox = NoLock

Init ==
    /\ full_filesystem_access = FALSE
    /\ storage \in Storages
    /\ fs = InitFs
    /\ last = NoCall
    /\ mask = <<>>
    /\ valid = NoValid
    /\ procs = NoProcs
    /\ NoBoxes

Fixed == UNCHANGED <<full_filesystem_access, storage, mask, valid, procs,
                     indexes, boxes, ibox>>

\* The tree stays within the bounds of the model.
Bounded(f, nodes) ==
    /\ Cardinality(DOMAIN f) <= nodes
    /\ \A p \in DOMAIN f : Len(p) <= MaxDepth

Do(op, out, nodes) ==
    /\ Bounded(out.fs, nodes)
    /\ fs' = out.fs
    /\ last' = Called(op, out)
    /\ Fixed

\* The calls, with names drawn from `names`, injected failures from `faults`,
\* and the tree kept within `nodes` nodes.
Create(names, faults, nodes) ==
    \E name \in names, only_hierarchy \in BOOLEAN, fault \in faults :
        Do("create", mbox_create_mailbox(fs, name, only_hierarchy, fault), nodes)

Delete(names, faults, nodes) ==
    \E name \in names, fault \in faults :
        Do("delete", mbox_delete_mailbox(fs, name, fault), nodes)

RenameMailbox(names, faults, nodes) ==
    \E oldname \in names, newname \in names, fault \in faults :
        Do("rename", mbox_rename_mailbox(fs, oldname, newname, fault), nodes)

Open(names, faults, nodes) ==
    \E name \in names, fault \in faults :
        Do("open", mbox_open_mailbox(fs, name, fault), nodes)

StatusQuery(names, faults, nodes) ==
    \E name \in names, fault \in faults :
        Do("status", mbox_get_mailbox_name_status(fs, name, fault), nodes)

Calls(names, faults, nodes) ==
    \/ Create(names, faults, nodes)
    \/ Delete(names, faults, nodes)
    \/ RenameMailbox(names, faults, nodes)
    \/ Open(names, faults, nodes)
    \/ StatusQuery(names, faults, nodes)

\* Calls made one after another, none failing for reasons outside the tree.
Next == Calls(Names, {NoFault}, MaxNodes)

Spec == Init /\ [][Next]_vars

\* The same, with room for one more node in the tree.
NextDeep == Calls(Names, {NoFault}, DeepNodes)

SpecDeep == Init /\ [][NextDeep]_vars

\* The same calls with a failure injected into one of their system calls.
NextFault == Calls(FaultNames, Faults, MaxFaultNodes)

SpecFault == Init /\ [][NextFault]_vars

(***************************************************************************)
(* The validators applied to every string up to MaxLen, with the           *)
(* full-filesystem-access flag either way.                                 *)
(***************************************************************************)
InitMask ==
    /\ full_filesystem_access \in BOOLEAN
    /\ storage = [dir |-> RootDir, inbox_file |-> InboxFile, index_dir |-> RootDir]
    /\ fs = InitFs
    /\ last = NoCall
    /\ mask \in Strings
    /\ valid = NoValid
    /\ procs = NoProcs
    /\ NoBoxes

Validate ==
    /\ valid = NoValid
    /\ valid' = [done |-> TRUE,
                 mask |-> mbox_is_valid_mask(mask),
                 create |-> mbox_is_valid_create_name(mask),
                 existing |-> mbox_is_valid_existing_name(mask)]
    /\ UNCHANGED <<full_filesystem_access, storage, fs, last, mask, procs,
                   indexes, boxes, ibox>>

SpecMask == InitMask /\ [][Validate]_vars

(***************************************************************************)
(* Two processes, each with a storage handle of its own on the same root,  *)
(* call mbox_create_mailbox with the same name.  Their steps interleave.   *)
(***************************************************************************)
FileA == InitFs @@ (Append(Root, <<"a">>) :> [kind |-> "file"])
DirA == InitFs @@ (Append(Root, <<"a">>) :> [kind |-> "dir"])

InitRace ==
    /\ full_filesystem_access = FALSE
    /\ storage \in Storages
    /\ fs \in {InitFs, FileA, DirA}
    /\ last = NoCall
    /\ mask = <<>>
    /\ valid = NoValid
    /\ NoBoxes
    /\ \E name \in RaceNames, oh \in [Procs -> BOOLEAN] :
           procs = [p \in Procs |-> [pc |-> "check", name |-> name,
                                     only_hierarchy |-> oh[p], res |-> FALSE,
                                     error |-> NoError, syslog |-> FALSE, log |-> <<>>]]

Stepped(p, step) ==
    /\ fs' = step.out.fs
    /\ procs' = [procs EXCEPT ![p] =
                    [@ EXCEPT !.pc = step.next, !.res = step.out.res,
                              !.error = step.out.error, !.syslog = step.out.syslog,
                              !.log = step.out.log]]
    /\ UNCHANGED <<full_filesystem_access, storage, last, mask, valid,
                   indexes, boxes, ibox>>

RaceCheck ==
    \E p \in Procs :
        /\ procs[p].pc = "check"
        /\ Stepped(p, CreateCheck(fs, procs[p].name, NoFault))

RaceMkdir ==
    \E p \in Procs :
        /\ procs[p].pc = "mkdir"
        /\ Stepped(p, CreateMkdir(fs, procs[p].name, procs[p].only_hierarchy, NoFault))

RaceOpen ==
    \E p \in Procs :
        /\ procs[p].pc = "open"
        /\ Stepped(p, Stop(CreateOpen(fs, procs[p].name, procs[p].log, NoFault)))

NextRace == RaceCheck \/ RaceMkdir \/ RaceOpen

SpecRace == InitRace /\ [][NextRace]_vars

(***************************************************************************)
(* Mailboxes opened and closed on one storage handle, with the registry of *)
(* indexes followed.  The specifications above leave the registry out: no  *)
(* lifecycle call reads it except mbox_open.                               *)
(***************************************************************************)
IndexNames == {NameList[1], INBOX, NameList[6]}

DoBox(op, out, reg, bxs) ==
    /\ fs' = out.fs
    /\ last' = Called(op, out)
    /\ indexes' = reg
    /\ boxes' = bxs
    /\ UNCHANGED <<full_filesystem_access, storage, mask, valid, procs, ibox>>

\* mbox_create_mailbox of a mailbox file
BoxCreate ==
    \E name \in IndexNames :
        DoBox("create", mbox_create_mailbox(fs, name, FALSE, NoFault), indexes, boxes)

\* what an open leaves behind: out is the outcome of mbox_open_mailbox up to
\* line 399, o the registry and mailbox mbox_open makes of it
Opened(out, o, init_ok) ==
    /\ Len(boxes) < MaxBoxes
    /\ Len(o.indexes) <= MaxIndexes
    /\ IF ~out.res THEN DoBox("open", out, indexes, boxes)
       ELSE IF ~init_ok
            THEN DoBox("open", [out EXCEPT !.res = FALSE, !.error = E_Critical],
                       o.indexes, boxes)
       ELSE DoBox("open", out, o.indexes, Append(boxes, o.box))

\* mbox_open_mailbox with the mbox_open it ends in
BoxOpen ==
    \E name \in IndexNames, init_ok \in BOOLEAN :
        Opened(mbox_open_mailbox(fs, name, NoFault), mbox_open(indexes, name, init_ok),
               init_ok)

\* mbox_storage_close of the k-th open mailbox
BoxClose ==
    \E k \in 1..Len(boxes) :
        /\ indexes' = mbox_storage_close(indexes, boxes[k])
        /\ boxes' = [i \in 1..(Len(boxes) - 1) |-> IF i < k THEN boxes[i] ELSE boxes[i + 1]]
        /\ UNCHANGED <<full_filesystem_access, storage, fs, last, mask, valid, procs, ibox>>

\* mbox_delete_mailbox; line 549 is reached exactly when the index directory
\* is about to be removed
BoxDelete ==
    \E name \in IndexNames :
        LET out == mbox_delete_mailbox(fs, name, NoFault)
            destroyed == \E i \in 1..Len(out.log) : out.log[i].call = "unlink_directory"
        IN DoBox("delete", out,
                 IF destroyed THEN index_storage_destroy_unrefed(indexes) ELSE indexes,
                 boxes)

NextIndex == BoxCreate \/ BoxOpen \/ BoxClose \/ BoxDelete

SpecIndex == Init /\ [][NextIndex]_vars

(***************************************************************************)
(* One open mailbox and the requests made of mbox_storage_lock, any call   *)
(* into the index failing.                                                 *)
(***************************************************************************)
Lock ==
    \E lock_type \in LockTypes, fail \in IndexFailures,
       left \in {ibox.index_lock, MAIL_LOCK_UNLOCK} :
        /\ ~ibox.abort
        /\ ibox' = mbox_storage_lock(ibox, lock_type, fail, left)
        /\ UNCHANGED <<full_filesystem_access, storage, fs, last, mask, valid, procs,
                       indexes, boxes>>

SpecLock == Init /\ [][Lock]_vars

(***************************************************************************)
(* Properties.  Those about a call made in a reachable state apply the     *)
(* call's operator to the reachable tree, for every name of NameList.      *)
(***************************************************************************)
Probe == Names \cup MoreNames

\* something exists at the storage path the name resolves to
Exists(f, name) == Stat(f, mbox_get_path(name)).err = OK

\* the canonical path of the node the name's storage path resolves to
NodeOf(f, name) == Lookup(f, mbox_get_path(name)).path

\* some segment between separators is ".."
HasDotDotSegment(m) ==
    \E i \in 1..Len(m) :
        /\ i = 1 \/ IsSlash(m[i - 1])
        /\ m[i] = "."
        /\ At(m, i + 1) = "."
        /\ At(m, i + 2) = NUL \/ IsSlash(At(m, i + 2))

\* C1: with full-filesystem-access disabled, mbox_is_valid_mask is false
\* exactly for the names that start with '/', '\' or '~' or that have a ".."
\* segment followed by a separator or by the end of the string; with it
\* enabled, it is true for every name.
C1_MaskRejectsEveryDotDotSegment ==
    valid.done =>
        valid.mask = (\/ full_filesystem_access
                      \/ ~(\/ At(mask, 1) \in {"/", "\\", "~"}
                           \/ HasDotDotSegment(mask)))

\* C3 as stated: for every name, a create followed at once by a create of
\* the same name has the second fail with "Mailbox already exists" and
\* leave the tree as the first left it.
C3_SecondCreateAlwaysExists ==
    \A name \in Probe, oh1 \in BOOLEAN, oh2 \in BOOLEAN :
        LET first == mbox_create_mailbox(fs, name, oh1, NoFault)
            second == mbox_create_mailbox(first.fs, name, oh2, NoFault)
        IN ~second.res /\ second.error = E_Exists /\ second.fs = first.fs

\* C3, amended: for every name whose create succeeds, a create of the same
\* name made at once afterwards fails with "Mailbox already exists" and
\* leaves the tree as the first left it.
C3_SecondCreateExists ==
    \A name \in Probe, oh1 \in BOOLEAN :
        LET first == mbox_create_mailbox(fs, name, oh1, NoFault)
        IN first.res =>
              \A oh2 \in BOOLEAN :
                  LET second == mbox_create_mailbox(first.fs, name, oh2, NoFault)
                  IN ~second.res /\ second.error = E_Exists /\ second.fs = first.fs

\* a create has just been refused because the mailbox is there, and the
\* tree is one in which a leaf create of a new name succeeds and its
\* repetition is refused
C3_Witness ==
    /\ last.op = "create" /\ ~last.res /\ last.error = E_Exists
    /\ \E name \in Names :
           LET first == mbox_create_mailbox(fs, name, FALSE, NoFault)
               second == mbox_create_mailbox(first.fs, name, FALSE, NoFault)
           IN first.res /\ first.fs # fs /\ second.error = E_Exists

\* C7: a delete of any name equal to INBOX without regard to case fails
\* with "INBOX can't be deleted." and makes no system call that changes the
\* tree, whatever the state and whatever failure the environment holds.
C7_InboxNeverDeleted ==
    \A name \in Probe, fault \in Faults :
        StrCaseEq(name, INBOX) =>
            LET out == mbox_delete_mailbox(fs, name, fault)
            IN /\ ~out.res
               /\ out.error = E_InboxDelete
               /\ ~out.syslog
               /\ out.log = <<>>
               /\ out.fs = fs

\* a delete has just been refused for INBOX while the inbox file and its
\* index directory exist
C7_Witness ==
    /\ last.op = "delete" /\ ~last.res /\ last.error = E_InboxDelete
    /\ Exists(fs, INBOX)
    /\ storage.index_dir # NoPath
    /\ Stat(fs, mbox_get_index_dir(INBOX)).err = OK

\* C8 as stated: a delete of a name at whose storage path nothing exists
\* fails with "Mailbox doesn't exist" and leaves the tree alone.
C8_DeleteAbsentDoesNotExist ==
    \A name \in Probe :
        ~Exists(fs, name) =>
            LET out == mbox_delete_mailbox(fs, name, NoFault)
            IN ~out.res /\ out.error = E_NotExist /\ out.fs = fs

\* C8, amended: a delete of a name other than INBOX that passes the
\* existing-name validator and at whose storage path nothing exists fails
\* with "Mailbox doesn't exist" and leaves the tree alone.
C8_DeleteAbsentValidName ==
    \A name \in Probe :
        (/\ ~Exists(fs, name)
         /\ ~StrCaseEq(name, INBOX)
         /\ mbox_is_valid_existing_name(name)) =>
            LET out == mbox_delete_mailbox(fs, name, NoFault)
            IN ~out.res /\ ~out.syslog /\ out.error = E_NotExist /\ out.fs = fs

\* a delete has just failed with "Mailbox doesn't exist" in a tree that
\* holds some mailboxes but not "a/b"
C8_Witness ==
    /\ last.op = "delete" /\ ~last.res /\ last.error = E_NotExist
    /\ Exists(fs, NameList[1])
    /\ ~Exists(fs, NameList[2])

\* every segment of the name is an ordinary one: not empty, not "." or "..",
\* and not the ".imap" the index directories are kept in
Ordinary(name) ==
    \A k \in 1..Len(Split(name)) :
        Split(name)[k] \notin {<<>>, Dot, DotDot, Tail(ImapDir)}

\* the storage path of name b lies below the storage path of name a
Below(b, a) ==
    LET pa == mbox_get_path(a) \o <<"/">>
        pb == mbox_get_path(b)
    IN Len(pb) > Len(pa) /\ SubSeq(pb, 1, Len(pa)) = pa

\* what is at path p and below it, relative to p
Subtree(f, p) == {<<SubSeq(q, Len(p) + 1, Len(q)), f[q].kind>> : q \in Under(f, p)}

\* a leaf create of the name would succeed
Creatable(f, name) == mbox_create_mailbox(f, name, FALSE, NoFault).res

\* in f2 the object that f0 had at a's storage path is there again, and
\* nothing is at b's storage path
RoundTrip(f0, f2, a, b) ==
    /\ Exists(f2, a)
    /\ NodeOf(f2, a) = NodeOf(f0, a)
    /\ Subtree(f2, NodeOf(f2, a)) = Subtree(f0, NodeOf(f0, a))
    /\ ~Exists(f2, b)

\* C4 as stated: for every existing mailbox A and every name B that does not
\* exist and can be created, Rename(A,B) and then Rename(B,A) both succeed
\* and put the object back at A's storage path, leaving nothing at B's.
C4_RenameAlwaysRoundTrips ==
    \A a \in Probe, b \in Probe :
        (Exists(fs, a) /\ ~Exists(fs, b) /\ Creatable(fs, b)) =>
            LET r1 == mbox_rename_mailbox(fs, a, b, NoFault)
                r2 == mbox_rename_mailbox(r1.fs, b, a, NoFault)
            IN r1.res /\ r2.res /\ RoundTrip(fs, r2.fs, a, b)

\* C4, amended: for every existing mailbox A and every name B that does not
\* exist, can be created and does not lie below A, where both names are made
\* of ordinary segments and A too passes the creation validator, Rename(A,B)
\* and then Rename(B,A) both succeed and put the object back at A's storage
\* path, leaving nothing at B's.
C4_RenameRoundTrips ==
    LET targets == {b \in Probe : Ordinary(b) /\ ~Exists(fs, b) /\ Creatable(fs, b)}
    IN \A a \in Probe :
           (Ordinary(a) /\ mbox_is_valid_create_name(a) /\ Exists(fs, a)) =>
               \A b \in targets :
                   ~Below(b, a) =>
                       LET r1 == mbox_rename_mailbox(fs, a, b, NoFault)
                           r2 == mbox_rename_mailbox(r1.fs, b, a, NoFault)
                       IN r1.res /\ r2.res /\ RoundTrip(fs, r2.fs, a, b)

\* a rename has just succeeded, and the tree holds a mailbox with an index
\* directory on disk that can be renamed to a new name and back
C4_Witness ==
    /\ last.op = "rename" /\ last.res
    /\ storage.index_dir # NoPath
    /\ \E a \in Names, b \in Names :
           /\ Exists(fs, a) /\ ~Exists(fs, b) /\ Creatable(fs, b)
           /\ ~Below(b, a) /\ Ordinary(a) /\ Ordinary(b)
           /\ mbox_is_valid_create_name(a)
           /\ Stat(fs, mbox_get_index_dir(a)).err = OK
           /\ LET r1 == mbox_rename_mailbox(fs, a, b, NoFault)
                  r2 == mbox_rename_mailbox(r1.fs, b, a, NoFault)
              IN r1.res /\ Exists(r1.fs, b) /\ ~Exists(r1.fs, a) /\ r2.res

\* directory d holds exactly one mailbox, the file c, not counting ".imap"
OnlyChild(f, d, c) ==
    /\ Exists(f, d) /\ Exists(f, c)
    /\ f[NodeOf(f, d)].kind = "dir"
    /\ f[NodeOf(f, c)].kind = "file"
    /\ {q \in DOMAIN f : /\ q # <<>>
                         /\ Parent(q) = NodeOf(f, d)
                         /\ q[Len(q)] # Tail(ImapDir)} = {NodeOf(f, c)}

\* C5: a delete of a directory that still holds one child mailbox fails with
\* "Folder isn't empty" and leaves it and the child in place; once the child has been
\* deleted, a delete of the directory succeeds and the directory is gone.
C5_DeleteNodeAfterChild ==
    \A d \in Probe, c \in Probe :
        (Ordinary(d) /\ Ordinary(c) /\ OnlyChild(fs, d, c)) =>
            LET d1 == mbox_delete_mailbox(fs, d, NoFault)
                d2 == mbox_delete_mailbox(d1.fs, c, NoFault)
                d3 == mbox_delete_mailbox(d2.fs, d, NoFault)
            IN /\ ~d1.res /\ d1.error = E_NotEmpty
               /\ OnlyChild(d1.fs, d, c)
               /\ d2.res
               /\ d3.res /\ ~Exists(d3.fs, d)

\* C6: the status query answers EXISTS for a name whose storage path exists,
\* VALID for a name that does not exist and passes the creation validator,
\* INVALID for a name with a ".." segment while full-filesystem-access is
\* disabled and for a name that does not exist and fails the creation
\* validator, and NOINFERIORS when a component of the path is not a
\* directory.
C6_StatusAnswers ==
    \A name \in Probe :
        LET out == mbox_get_mailbox_name_status(fs, name, NoFault)
            st == Stat(fs, mbox_get_path(name))
            dotdot == ~full_filesystem_access /\ HasDotDotSegment(name)
        IN /\ dotdot => out.status = "INVALID"
           /\ (~dotdot /\ st.err = OK) => out.status = "EXISTS"
           /\ (~dotdot /\ st.err = ENOENT /\ mbox_is_valid_create_name(name))
                 => out.status = "VALID"
           /\ (st.err # OK /\ ~mbox_is_valid_create_name(name))
                 => out.status = "INVALID"
           /\ (~dotdot /\ st.err = ENOTDIR /\ mbox_is_valid_create_name(name))
                 => out.status = "NOINFERIORS"

\* both racing creates are leaf creates
BothLeaf == \A p \in Procs : ~procs[p].only_hierarchy

\* process p has returned from its create
Done(p) == procs[p].pc = "done"

\* C2 as stated: of two creates of one name racing from two processes, at
\* most one returns success, and when one does the other fails with "Mailbox
\* already exists" and logs no critical error.
C2_RaceAnyCreate ==
    /\ ~(\A p \in Procs : Done(p) /\ procs[p].res)
    /\ \A p \in Procs, q \in Procs :
           (p # q /\ Done(p) /\ Done(q) /\ procs[p].res) =>
               (procs[q].error = E_Exists /\ ~procs[q].syslog)

\* C2, amended: of two leaf creates (only_hierarchy not set) of one name
\* racing from two processes, at most one returns success, and when one does
\* the other fails with "Mailbox already exists" and logs no critical error.
C2_RaceOneWinner ==
    BothLeaf =>
        /\ ~(\A p \in Procs : Done(p) /\ procs[p].res)
        /\ \A p \in Procs, q \in Procs :
               (p # q /\ Done(p) /\ Done(q) /\ procs[p].res) =>
                   (~procs[q].res /\ procs[q].error = E_Exists /\ ~procs[q].syslog)

\* both leaf creates have returned; the loser had passed its stat before the
\* winner made the file and was stopped by the exclusive open
C2_Witness ==
    /\ BothLeaf
    /\ \E p \in Procs, q \in Procs :
           /\ p # q /\ Done(p) /\ Done(q)
           /\ procs[p].res
           /\ ~procs[q].res /\ procs[q].error = E_Exists
           /\ procs[q].log # <<>>
           /\ procs[q].log[Len(procs[q].log)] =
                  [call |-> "open", on |-> "storage", ok |-> FALSE, err |-> EEXIST]

\* the unlink, rmdir or rename of the mailbox's storage path
Primary(e) == e.on = "storage" /\ e.call \in {"unlink", "rmdir", "rename"}

\* every system call on the index directory comes after the call on the
\* storage path, and the value returned is the outcome of that call
StorageFirst(out) ==
    /\ \A i \in 1..Len(out.log) :
           out.log[i].on = "index" => \E j \in 1..(i - 1) : Primary(out.log[j])
    /\ \A j \in 1..Len(out.log) :
           Primary(out.log[j]) => out.res = out.log[j].ok

\* the name's storage path is a directory
IsDirNode(f, name) == Stat(f, mbox_get_path(name)).kind = "dir"

\* C9 as stated: in every delete and every rename, of a leaf and of a
\* directory alike, the storage path is changed before the index directory
\* is, and the returned value is the outcome of the storage change alone.
C9_StorageFirstAlways ==
    \A fault \in Faults, name \in FaultNames :
        /\ StorageFirst(mbox_delete_mailbox(fs, name, fault))
        /\ \A newname \in Names :
               StorageFirst(mbox_rename_mailbox(fs, name, newname, fault))

\* C9, amended: in every delete of a leaf mailbox and every rename, the
\* storage path is changed before the index directory is, and the returned
\* value is the outcome of the storage change alone.
C9_StorageFirstLeafAndRename ==
    \A fault \in Faults, name \in FaultNames :
        /\ ~IsDirNode(fs, name) => StorageFirst(mbox_delete_mailbox(fs, name, fault))
        /\ \A newname \in Names :
               StorageFirst(mbox_rename_mailbox(fs, name, newname, fault))

\* a leaf delete has just returned success although the removal of its index
\* directory failed: the unlink had been made first and decided the result
C9_Witness ==
    /\ last.op = "delete" /\ last.res /\ last.syslog
    /\ storage.index_dir # NoPath

\* C10: once the unlink of a leaf delete or the rename of the storage path
\* has succeeded, the call returns success whatever becomes of the index
\* directory; a failure there is logged as a critical error, and the storage
\* change stays.
C10_IndexFailureKeepsSuccess ==
    \A fault \in Faults, name \in FaultNames :
        /\ LET out == mbox_delete_mailbox(fs, name, fault)
           IN \A j \in 1..Len(out.log) :
                  (out.log[j].call = "unlink" /\ out.log[j].ok) =>
                      /\ out.res
                      /\ ~Exists(out.fs, name)
                      /\ \A i \in 1..Len(out.log) :
                             (/\ out.log[i].on = "index"
                              /\ ~out.log[i].ok
                              /\ out.log[i].err # ENOENT) =>
                                 (out.syslog /\ out.error = E_Critical)
        /\ \A newname \in Names :
               LET out == mbox_rename_mailbox(fs, name, newname, fault)
               IN \A j \in 1..Len(out.log) :
                      (Primary(out.log[j]) /\ out.log[j].ok) =>
                          /\ out.res
                          /\ Exists(out.fs, newname)
                          /\ mbox_get_path(name) # mbox_get_path(newname)
                                 => ~Exists(out.fs, name)
                          /\ \A i \in 1..Len(out.log) :
                                 (out.log[i].on = "index" /\ ~out.log[i].ok) =>
                                     (out.syslog /\ out.error = E_Critical)

\* a rename has just returned success with a critical error logged for its
\* index directory, and the tree holds a leaf whose delete does the same when
\* the removal of its index directory fails
C10_Witness ==
    /\ last.op = "rename" /\ last.res /\ last.syslog
    /\ \E name \in FaultNames :
           LET out == mbox_delete_mailbox(fs, name, [site |-> "index", errno |-> EIO])
           IN out.res /\ out.syslog /\ ~Exists(out.fs, name)

\* the inputs of one call of mbox_storage_lock on the mailbox b
LockInputs(b) ==
    [lock_type : LockTypes, fail : IndexFailures,
     left : {b.index_lock, MAIL_LOCK_UNLOCK}]

\* what the call with inputs c makes of the mailbox b
LockOut(b, c) == mbox_storage_lock(b, c.lock_type, c.fail, c.left)

\* C11: an unlock request is taken in every state and leaves the mailbox's
\* lock type at MAILBOX_LOCK_UNLOCK; any other request is taken only while
\* the lock type is MAILBOX_LOCK_UNLOCK, and made while a lock is held it
\* trips the assertion, leaves the lock type and the lock of the index as
\* they were and makes no call into the index.
C11_OnlyUnlockWhileLocked ==
    \A c \in LockInputs(ibox) :
        LET out == LockOut(ibox, c)
        IN /\ c.lock_type = MAILBOX_LOCK_UNLOCK =>
                  (~out.abort /\ out.lock_type = MAILBOX_LOCK_UNLOCK)
           /\ (c.lock_type # MAILBOX_LOCK_UNLOCK /\ ibox.lock_type = MAILBOX_LOCK_UNLOCK)
                  => ~out.abort
           /\ (c.lock_type # MAILBOX_LOCK_UNLOCK /\ ibox.lock_type # MAILBOX_LOCK_UNLOCK)
                  => /\ out.abort
                     /\ ~out.res
                     /\ out.lock_type = ibox.lock_type
                     /\ out.index_lock = ibox.index_lock
                     /\ out.steps = <<>>

\* a request for a lock was made of a mailbox that held one: the assertion
\* has failed and the lock held is still there
C11_Witness ==
    /\ ibox.abort
    /\ ibox.req # MAILBOX_LOCK_UNLOCK
    /\ ibox.lock_type # MAILBOX_LOCK_UNLOCK
    /\ ibox.index_lock # MAIL_LOCK_UNLOCK

\* C12: when a call into the index made for a lock request fails, the
\* request returns failure and the mailbox's lock type is
\* MAILBOX_LOCK_UNLOCK afterwards; the lock type becomes the one asked for
\* only when every call into the index has succeeded.
C12_FailedStepLeavesUnlocked ==
    \A c \in LockInputs(ibox) :
        LET out == LockOut(ibox, c)
            failed == \E i \in 1..Len(out.steps) : ~out.steps[i].ok
        IN ~out.abort =>
              /\ failed => (~out.res /\ out.lock_type = MAILBOX_LOCK_UNLOCK)
              /\ (c.lock_type # MAILBOX_LOCK_UNLOCK /\ out.lock_type = c.lock_type)
                     => (out.res /\ ~failed)
              /\ out.res => (~failed /\ out.lock_type = c.lock_type)

\* a request for reading and saving has failed in the synchronization,
\* after the shared lock had been taken: the mailbox is not locked
C12_Witness ==
    /\ ~ibox.abort /\ ~ibox.res
    /\ ibox.req = {MAILBOX_LOCK_READ, MAILBOX_LOCK_SAVE}
    /\ ibox.steps = <<Step("lock", MAIL_LOCK_SHARED, TRUE),
                      Step("sync_and_lock", MAIL_LOCK_EXCLUSIVE, FALSE)>>
    /\ ibox.lock_type = MAILBOX_LOCK_UNLOCK

\* the calls into the index a request for lock type m is to make, in order
StepsFor(m) ==
    (IF m \cap {MAILBOX_LOCK_FLAGS, MAILBOX_LOCK_EXPUNGE} # {}
     THEN <<Step("lock", MAIL_LOCK_EXCLUSIVE, TRUE)>>
     ELSE IF MAILBOX_LOCK_READ \in m THEN <<Step("lock", MAIL_LOCK_SHARED, TRUE)>>
     ELSE <<>>)
    \o (IF m \cap {MAILBOX_LOCK_EXPUNGE, MAILBOX_LOCK_SAVE} # {}
        THEN <<Step("sync_and_lock", MAIL_LOCK_EXCLUSIVE, TRUE)>>
        ELSE <<>>)

\* C13: a request for a lock type m other than unlock, made of a mailbox
\* that holds no lock and with no call into the index failing, takes the
\* exclusive lock of the index when m has FLAGS or EXPUNGE and otherwise the
\* shared lock when m has READ, then synchronizes and relocks exclusively
\* when m has EXPUNGE or SAVE, and then sets the lock type to m; the index
\* is left with the exclusive lock when m has FLAGS, EXPUNGE or SAVE and
\* with the shared lock when m is READ alone.
C13_LocksTakenForMode ==
    \A c \in LockInputs(ibox) :
        (/\ c.lock_type # MAILBOX_LOCK_UNLOCK
         /\ ibox.lock_type = MAILBOX_LOCK_UNLOCK
         /\ c.fail = "none") =>
            LET out == LockOut(ibox, c)
                m == c.lock_type
            IN /\ out.res /\ out.lock_type = m
               /\ out.steps = StepsFor(m)
               /\ m \cap {MAILBOX_LOCK_FLAGS, MAILBOX_LOCK_EXPUNGE, MAILBOX_LOCK_SAVE} # {}
                      => out.index_lock = MAIL_LOCK_EXCLUSIVE
               /\ m = {MAILBOX_LOCK_READ} => out.index_lock = MAIL_LOCK_SHARED
               /\ out.index_lock = MAIL_LOCK_SHARED => m = {MAILBOX_LOCK_READ}

\* the mailbox is locked for reading and flag changes: the exclusive lock
\* was taken and nothing was synchronized
C13_Witness ==
    /\ ~ibox.abort /\ ibox.res
    /\ ibox.lock_type = {MAILBOX_LOCK_READ, MAILBOX_LOCK_FLAGS}
    /\ ibox.steps = <<Step("lock", MAIL_LOCK_EXCLUSIVE, TRUE)>>
    /\ ibox.index_lock = MAIL_LOCK_EXCLUSIVE

\* C14: in every reachable state, an open of a name whose storage path is a
\* directory, INBOX included, fails with "Mailbox isn't selectable" and
\* returns no mailbox; an open of a name whose storage path does not exist
\* fails with "Mailbox doesn't exist", except for INBOX, whose file the open
\* creates.  Stated for INBOX and the names the existing-name validator
\* accepts.
C14_DirectoryNeverOpened ==
    \A name \in Probe :
        (StrCaseEq(name, INBOX) \/ mbox_is_valid_existing_name(name)) =>
            LET out == mbox_open_mailbox(fs, name, NoFault)
                st == Stat(fs, mbox_get_path(name))
            IN /\ (st.err = OK /\ st.kind = "dir")
                      => (~out.res /\ out.error = E_NotSelectable)
               /\ (st.err # OK /\ ~StrCaseEq(name, INBOX))
                      => (~out.res /\ out.error = E_NotExist)
               /\ (st.err # OK /\ StrCaseEq(name, INBOX))
                      => (out.res /\ Stat(out.fs, storage.inbox_file).kind = "file")

\* C15: whenever an open of a name equal to INBOX without regard to case
\* succeeds, something exists at the handle's inbox path when it returns,
\* and so does the index directory of INBOX when the handle keeps its
\* indexes on disk; whatever failure the environment holds.
C15_InboxExistsAfterOpen ==
    \A name \in Probe, fault \in Faults :
        StrCaseEq(name, INBOX) =>
            LET out == mbox_open_mailbox(fs, name, fault)
            IN out.res =>
                  /\ Stat(out.fs, storage.inbox_file).err = OK
                  /\ storage.index_dir # NoPath =>
                         Stat(out.fs, mbox_get_index_dir(INBOX)).kind = "dir"

\* the open mailboxes that use the index with this id
UsersOf(id) == {k \in 1..Len(boxes) : boxes[k].index = id}

\* C16: the registry never holds two indexes for one index directory, and
\* an open whose index directory has an index in the registry gets that
\* index, one more reference counted on it, and adds no entry; so open
\* mailboxes with the same index directory share one index.
C16_OneIndexPerDirectory ==
    /\ \A i \in 1..Len(indexes), j \in 1..Len(indexes) :
           i # j => /\ indexes[i].id # indexes[j].id
                    /\ indexes[i].dir # NoPath => indexes[i].dir # indexes[j].dir
    /\ \A i \in 1..Len(indexes) :
           indexes[i].refcount = Cardinality(UsersOf(indexes[i].id))
    /\ \A k \in 1..Len(boxes), l \in 1..Len(boxes) :
           (boxes[k].dir # NoPath /\ boxes[k].dir = boxes[l].dir)
               => boxes[k].index = boxes[l].index
    /\ \A name \in Probe, i \in 1..Len(indexes) :
           LET nm == IF StrCaseEq(name, INBOX) THEN INBOX ELSE name
               o == mbox_open(indexes, name, TRUE)
           IN (indexes[i].dir # NoPath /\ indexes[i].dir = mbox_get_index_dir(nm)) =>
                  /\ o.box.index = indexes[i].id
                  /\ Len(o.indexes) = Len(indexes)
                  /\ o.indexes[i].refcount = indexes[i].refcount + 1
                  /\ \A j \in 1..Len(indexes) : j # i => o.indexes[j] = indexes[j]

\* INBOX has just been opened a second time while another mailbox was open:
\* the registry holds one index for each directory, INBOX's used twice
C16_Witness ==
    /\ last.op = "open" /\ last.res
    /\ Len(boxes) = 2
    /\ boxes[1].dir # NoPath
    /\ boxes[1].index = boxes[2].index
    /\ \E i \in 1..Len(indexes) :
           /\ indexes[i].id = boxes[1].index
           /\ indexes[i].dir = mbox_get_index_dir(INBOX)
           /\ indexes[i].refcount = 2
    /\ Len(indexes) = 2

\* the path lies in a directory named ".imap"
InsideIndexDir(path) ==
    \E k \in 1..(Len(Split(path)) - 1) : Split(path)[k] = Tail(ImapDir)

\* C17: on a handle that keeps its indexes below the storage root, for all
\* names n and m that pass the creation validator, the storage path of n is
\* not the index directory of m and lies in no ".imap" directory.
C17_IndexDirsNeverMailboxes ==
    \A n \in Probe, m \in Probe :
        (/\ storage.index_dir = storage.dir
         /\ mbox_is_valid_create_name(n)
         /\ mbox_is_valid_create_name(m)) =>
            /\ mbox_get_path(n) # mbox_get_index_dir(m)
            /\ ~InsideIndexDir(mbox_get_path(n))

\* the calls a lifecycle operation can be made with, and their outcomes
OpCalls ==
    [op : {"create"}, name : FaultNames, arg : BOOLEAN, fault : Faults]
    \cup [op : {"delete", "open", "status"}, name : FaultNames, arg : {FALSE},
          fault : Faults]
    \cup [op : {"rename"}, name : FaultNames, arg : FaultNames, fault : Faults]

OpOut(c) ==
    CASE c.op = "create" -> mbox_create_mailbox(fs, c.name, c.arg, c.fault)
      [] c.op = "delete" -> mbox_delete_mailbox(fs, c.name, c.fault)
      [] c.op = "open" -> mbox_open_mailbox(fs, c.name, c.fault)
      [] c.op = "status" -> mbox_get_mailbox_name_status(fs, c.name, c.fault)
      [] c.op = "rename" -> mbox_rename_mailbox(fs, c.name, c.arg, c.fault)

\* the position in the log of the last call that failed, 0 when none did
LastFailed(log) ==
    LET F == {i \in 1..Len(log) : ~log[i].ok}
    IN IF F = {} THEN 0 ELSE CHOOSE i \in F : \A j \in F : j <= i

\* the failure code is in the PermissionDenied, NoSpace or PathBroken class
InClass(e) == mbox_handle_errors(e).handled

\* the operation gives the failure a meaning of its own, or overlooks it
OwnMeaning(c, e) ==
    \/ c.op = "open" /\ e.call = "open"
    \/ e.call = "open" /\ e.err = EEXIST
    \/ e.call \in {"unlink", "rmdir", "rename"} /\ e.on = "storage" /\ ENOTFOUND(e.err)
    \/ e.call = "rmdir" /\ e.err = ENOTEMPTY
    \/ e.call = "rmdir" /\ e.on = "index" /\ ENOTFOUND(e.err)
    \/ e.call = "unlink_directory" /\ e.err = ENOENT

\* the slot holds what the classifier makes of the failure code
ReportsClassified(out, e) ==
    IF InClass(e) THEN out.error = mbox_handle_errors(e).error /\ ~out.syslog
    ELSE out.error = E_Critical /\ out.syslog

\* the call was ended by its stat or lstat failing with the injected code,
\* a code the operation gives no meaning of its own
StatFailed(c, out) ==
    LET nm == IF StrCaseEq(c.name, INBOX) THEN INBOX ELSE c.name
        e == c.fault.errno
    IN /\ c.fault.site = "stat"
       /\ CASE c.op \in {"open", "delete"} ->
                   /\ ~StrCaseEq(c.name, INBOX)
                   /\ mbox_is_valid_existing_name(c.name)
                   /\ ~ENOTFOUND(e)
            [] c.op = "create" ->
                   /\ mbox_is_valid_create_name(nm)
                   /\ e \notin {ENOENT, ELOOP, EACCES, ENOTDIR}
            [] c.op = "rename" ->
                   /\ mbox_is_valid_existing_name(c.name)
                   /\ mbox_is_valid_create_name(c.arg)
                   /\ Len(out.log) = 1 /\ out.log[1].ok
                   /\ ~ENOTFOUND(e) /\ e # EACCES
            [] c.op = "status" ->
                   /\ mbox_is_valid_create_name(nm)
                   /\ ~ENOTFOUND(e) /\ e # EACCES

ClassifierCall(e) == e.on = "storage" \/ e.call = "rmdir"

RECURSIVE ResolveFrom(_, _)
ResolveFrom(cur, segs) ==
    IF segs = <<>> THEN cur
    ELSE IF Head(segs) \in {<<>>, Dot} THEN ResolveFrom(cur, Tail(segs))
    ELSE IF Head(segs) = DotDot THEN ResolveFrom(Parent(cur), Tail(segs))
    ELSE ResolveFrom(Append(cur, Head(segs)), Tail(segs))

Resolved(path) == ResolveFrom(<<>>, Split(path))

\* the names tried for confinement
ConfineProbe == Probe \cup {Dot}

\* C19: with full-filesystem-access disabled, the storage path of every name
\* other than INBOX that the existing-name or the creation validator
\* accepts lies, with its ".." segments resolved, strictly inside the root
\* directory of the handle; and whatever calls are made, the root directory
\* stays a directory and nothing appears outside it.
C19_RootConfinement ==
    /\ \A name \in ConfineProbe :
           (/\ ~full_filesystem_access
            /\ ~StrCaseEq(name, INBOX)
            /\ mbox_is_valid_existing_name(name) \/ mbox_is_valid_create_name(name)) =>
               LET p == Resolved(mbox_get_path(name))
               IN IsPrefix(Root, p) /\ p # Root
    /\ Root \in DOMAIN fs /\ fs[Root].kind = "dir"
    /\ \A q \in DOMAIN fs : q = <<>> \/ IsPrefix(Root, q)

\* the directories named by the part of the path before its last '/', and
\* by the parts of that before each '/'
ParentDirs(path) ==
    LET p == Before(path, LastIndexOf(path, "/"))
    IN {Resolved(SubSeq(p, 1, k)) : k \in {j \in 1..Len(p) : At(p, j + 1) \in {"/", NUL}}}

\* every node of f is in g as it was, and what g has more are parent
\* directories of the path
OnlyParentsAdded(f, g, path) ==
    /\ \A q \in DOMAIN f : q \in DOMAIN g /\ g[q] = f[q]
    /\ \A q \in DOMAIN g \ DOMAIN f : g[q].kind = "dir" /\ q \in ParentDirs(path)

\* C20 as stated: a rename that returns failure leaves the tree as it was.
C20_FailedRenameChangesNothing ==
    \A oldname \in FaultNames, newname \in Names, fault \in Faults :
        LET out == mbox_rename_mailbox(fs, oldname, newname, fault)
        IN ~out.res => out.fs = fs

\* C20, amended: a rename that returns failure has removed and moved
\* nothing; all it can have changed is to have made missing parent
\* directories of the new name's storage path.
C20_FailedRenameOnlyAddsParents ==
    \A oldname \in FaultNames, newname \in Names, fault \in Faults :
        LET out == mbox_rename_mailbox(fs, oldname, newname, fault)
        IN ~out.res => OnlyParentsAdded(fs, out.fs, mbox_get_path(newname))

\* a rename has just failed with "Mailbox doesn't exist", and there still is
\* a rename that fails so and leaves a new directory behind
C20_Witness ==
    /\ last.op = "rename" /\ ~last.res /\ last.error = E_NotExist
    /\ \E oldname \in FaultNames, newname \in FaultNames :
           LET out == mbox_rename_mailbox(fs, oldname, newname, NoFault)
           IN /\ ~out.res /\ out.error = E_NotExist
              /\ DOMAIN out.fs # DOMAIN fs
              /\ OnlyParentsAdded(fs, out.fs, mbox_get_path(newname))

(***************************************************************************)
(* The error slot against the returned value.  Every entry point starts    *)
(* with mail_storage_clear_error (lines 363, 409, 478, 569, 645), so the   *)
(* slot after a call is what that call alone put there: last.error.        *)
(***************************************************************************)
\* the last call failed and left an error, or succeeded and left none
SlotMatchesResult == last.res <=> last.error = NoError

\* C21: after any call of open, create, delete, rename or the status query,
\* a failure result comes with a non-empty error slot and a success result
\* with an empty one.
C21_ErrorSlotConsistent ==
    last.op # "none" => SlotMatchesResult
====
